---- MODULE Spec2Model ----
(***************************************************************************)
(* The three asset-generation scripts of the shopping-list app             *)
(* (scripts/generate_icon.py, scripts/generate_feature_graphic.py,         *)
(* scripts/generate_mipmaps.py) as one state machine over the filesystem   *)
(* they share.  A script runs from its first line to its last (or to the   *)
(* unhandled exception that ends it); scripts run one at a time.  Between  *)
(* runs the user may put, replace or remove the icon file.                 *)
(***************************************************************************)
EXTENDS Integers, Sequences, FiniteSets, TLC

VARIABLES
    dirs,       \* the directories that exist
    files,      \* path -> content of the file at that path
    fonts,      \* the font files that exist on this machine
    script,     \* the running script, or "idle"
    pc,         \* the running script's position
    loc,        \* the running script's module-level names
    start,      \* history: the filesystem when the current/last run began
    last,       \* history: the last completed run
    seen        \* history: per script, its latest completed run and the one before

vars == <<dirs, files, fonts, script, pc, loc, start, last, seen>>

----------------------------------------------------------------------------
(* Bounds of the model *)

\* the main specification installs only the first MaxFonts fonts of FontOrder
MaxFonts == 1

----------------------------------------------------------------------------
(* Images (PIL.Image) and files *)

SIZE == 512
WIDTH == 1024
HEIGHT == 500
icon_size == 280

NoImage == [w |-> 0, h |-> 0, mode |-> "none", px |-> <<>>]
NoFont == [path |-> "None", size |-> 0]

Layer(op, font, src) == [op |-> op, font |-> font, src |-> src]

\* Image.new('RGBA', (w, h), (0, 0, 0, 0))
New(w, h) == [w |-> w, h |-> h, mode |-> "RGBA", px |-> <<>>]

\* ImageDraw.Draw(im).<shape>(...): draws in place, the size is unchanged
Draw(im, op) == [im EXCEPT !.px = Append(@, Layer(op, NoFont, NoImage))]

\* draw.text(xy, text, fill, font)
DrawText(im, text, font) == [im EXCEPT !.px = Append(@, Layer(text, font, NoImage))]

\* Image.alpha_composite(im1, im2): a new image, im2 over im1
alpha_composite(im1, im2) ==
    [w |-> im1.w, h |-> im1.h, mode |-> im1.mode,
     px |-> Append(im1.px, Layer("alpha_composite", NoFont, im2))]

\* im.paste(src, box, mask): in place
paste(im, src) == [im EXCEPT !.px = Append(@, Layer("paste", NoFont, src))]

\* im.convert('RGBA')
convert(im) ==
    IF im.mode = "RGBA" THEN im
    ELSE [w |-> im.w, h |-> im.h, mode |-> "RGBA",
          px |-> <<Layer("convert", NoFont, im)>>]

\* a resize that resamples but keeps the source's dimensions
resize_mut(im, size) ==
    [w |-> im.w, h |-> im.h, mode |-> im.mode,
     px |-> <<Layer("LANCZOS", NoFont, im)>>]

\* im.resize((size, size), Image.LANCZOS)
resize(im, size) ==
    IF im.w = size /\ im.h = size THEN im
    ELSE [w |-> size, h |-> size, mode |-> im.mode,
          px |-> <<Layer("LANCZOS", NoFont, im)>>]

\* file contents
NoFile == [fmt |-> "absent", w |-> 0, h |-> 0, mode |-> "none", px |-> <<>>]
Junk == [fmt |-> "junk", w |-> 0, h |-> 0, mode |-> "none", px |-> <<>>]

\* im.save(path, 'PNG'): the PNG encoding of the image
Encode(im) == [fmt |-> "PNG", w |-> im.w, h |-> im.h, mode |-> im.mode, px |-> im.px]

\* Image.open(path): raises unless the file is an image
Decodable(f) == f.fmt = "PNG"
Decode(f) == [w |-> f.w, h |-> f.h, mode |-> f.mode, px |-> f.px]

----------------------------------------------------------------------------
(* Paths *)

join(dir, name) == <<dir, name>>
dirname(p) == p[1]

\* mutants: a script given another script's file name
icon_output_path_mut == join("assets", "feature-graphic.png")
feature_output_path_mut == join("assets", "app-icon-512.png")
icon_path_mut == join("assets", "feature-graphic.png")
src_mut == join("assets", "feature-graphic.png")

\* generate_icon.py: output_path
icon_output_path == join("assets", "app-icon-512.png")
\* generate_feature_graphic.py: output_path, icon_path
feature_output_path == join("assets", "feature-graphic.png")
icon_path == join("assets", "app-icon-512.png")
\* generate_mipmaps.py: src
src == join("assets", "app-icon-512.png")

Folders == <<"mipmap-mdpi", "mipmap-hdpi", "mipmap-xhdpi", "mipmap-xxhdpi", "mipmap-xxxhdpi">>

\* mutant: the last density given the size of the one before it
sizes_mut ==
    [f \in {Folders[k] : k \in 1..Len(Folders)} |->
        CASE f = "mipmap-mdpi" -> 48
          [] f = "mipmap-hdpi" -> 72
          [] f = "mipmap-xhdpi" -> 96
          [] f = "mipmap-xxhdpi" -> 144
          [] f = "mipmap-xxxhdpi" -> 144]

sizes ==
    [f \in {Folders[k] : k \in 1..Len(Folders)} |->
        CASE f = "mipmap-mdpi" -> 48
          [] f = "mipmap-hdpi" -> 72
          [] f = "mipmap-xhdpi" -> 96
          [] f = "mipmap-xxhdpi" -> 144
          [] f = "mipmap-xxxhdpi" -> 192]

FolderSet == DOMAIN sizes
LauncherNames == {"ic_launcher.png", "ic_launcher_round.png"}
MipmapPaths == {join(f, n) : f \in FolderSet, n \in LauncherNames}
\* every path a script reads or writes
Paths ==
    {join("assets", "app-icon-512.png"), join("assets", "feature-graphic.png")}
        \cup MipmapPaths

\* os.path.exists(p)
exists(p) == files[p] # NoFile

----------------------------------------------------------------------------
(* Fonts (generate_feature_graphic.py) *)

font_paths == <<"segoeui.ttf", "arial.ttf", "calibri.ttf">>
font_bold_paths == <<"segoeuib.ttf", "arialbd.ttf", "calibrib.ttf">>
font_light_paths == <<"segoeuil.ttf", "calibril.ttf", "arial.ttf">>

Range(s) == {s[k] : k \in 1..Len(s)}
AllFonts == Range(font_paths) \cup Range(font_bold_paths) \cup Range(font_light_paths)

\* the order in which the main specification installs fonts (see MaxFonts)
FontOrder == <<"arial.ttf", "segoeuib.ttf", "calibril.ttf", "segoeui.ttf",
               "arialbd.ttf", "calibri.ttf", "segoeuil.ttf", "calibrib.ttf">>

\* ImageFont.truetype(fp, size)
truetype(fp, size) == [path |-> fp, size |-> size]
\* ImageFont.load_default()
load_default == [path |-> "default", size |-> 0]

\* mutant: the loop without its break, so the last existing path wins
RECURSIVE FontLoop_mut(_, _, _)
FontLoop_mut(paths, size, k) ==
    IF k > Len(paths) THEN NoFont
    ELSE LET rest == FontLoop_mut(paths, size, k + 1)
         IN IF rest # NoFont THEN rest
            ELSE IF paths[k] \in fonts THEN truetype(paths[k], size)
            ELSE NoFont

\* for fp in paths: if os.path.exists(fp): font = truetype(fp, size); break
\* (the font starts as None); k is the loop's position in paths
RECURSIVE FontLoop(_, _, _)
FontLoop(paths, size, k) ==
    IF k > Len(paths) THEN NoFont
    ELSE IF paths[k] \in fonts THEN truetype(paths[k], size)
    ELSE FontLoop(paths, size, k + 1)

\* if not font: font = ImageFont.load_default()
OrDefault(font) == IF font = NoFont THEN load_default ELSE font

----------------------------------------------------------------------------
(* Runs *)

Scripts == {"icon", "feature", "mipmap"}

Blank ==
    [img |-> NoImage, img2 |-> NoImage, gradient |-> NoImage, icon |-> NoImage,
     font_title |-> NoFont, font_subtitle |-> NoFont, font_tagline |-> NoFont,
     i |-> 0, resized |-> NoImage, loads |-> 0, wrote |-> {}]

FirstPc(s) ==
    CASE s = "icon" -> "makedirs"
      [] s = "feature" -> "background"
      [] s = "mipmap" -> "open"

NoRun == [script |-> "none", outcome |-> "none"]
NotSeen ==
    [outcome |-> "none", wrote |-> {}, since |-> {}, between |-> {},
     was_outcome |-> "none", was_wrote |-> {}]

\* the filesystem as one value
Fs == [dirs |-> dirs, files |-> files]

\* `python scripts/generate_<s>.py`
Launch(s) ==
    /\ script = "idle"
    /\ script' = s
    /\ pc' = FirstPc(s)
    /\ loc' = Blank
    /\ start' = Fs
    /\ UNCHANGED <<dirs, files, fonts, last, seen>>

\* the run ends (its last line, or an unhandled exception) having written w;
\* the history keeps, per script, this run's result beside its previous one
End(outcome, w) ==
    /\ script' = "idle"
    /\ pc' = outcome
    /\ last' = [script |-> script, outcome |-> outcome]
    /\ seen' = [s \in Scripts |->
                  IF s = script
                  THEN [outcome |-> outcome, wrote |-> w, since |-> {},
                        between |-> seen[s].since,
                        was_outcome |-> seen[s].outcome, was_wrote |-> seen[s].wrote]
                  ELSE IF seen[s].outcome # "none"
                  THEN [seen[s] EXCEPT !.since = @ \cup {script}]
                  ELSE seen[s]]

Continue(next) ==
    /\ pc' = next
    /\ UNCHANGED <<script, last, seen>>

----------------------------------------------------------------------------
(* scripts/generate_icon.py *)

\* line 8: os.makedirs(os.path.dirname(output_path), exist_ok=True)
IconMakedirs ==
    /\ script = "icon" /\ pc = "makedirs"
    /\ dirs' = dirs \cup {dirname(icon_output_path)}
    /\ Continue("draft")
    /\ UNCHANGED <<files, fonts, loc, start>>

\* lines 13-70: the first canvas (img), its gradient, the first cart
IconDraft ==
    /\ script = "icon" /\ pc = "draft"
    /\ LET bg == Draw(New(SIZE, SIZE), "background")
           gradient == Draw(New(SIZE, SIZE), "gradient")
           img == Draw(alpha_composite(bg, gradient), "cart")
       IN loc' = [loc EXCEPT !.img = img, !.gradient = gradient]
    /\ Continue("redraw")
    /\ UNCHANGED <<dirs, files, fonts, start>>

\* lines 73-192: the second canvas (img2), which is the one saved
IconRedraw ==
    /\ script = "icon" /\ pc = "redraw"
    /\ LET bg == Draw(New(SIZE, SIZE), "background")
           img2 == alpha_composite(bg, loc.gradient)
       IN loc' = [loc EXCEPT !.img2 =
                    Draw(Draw(Draw(Draw(img2, "handle"), "body"), "wheels"), "checklist")]
    /\ Continue("save")
    /\ UNCHANGED <<dirs, files, fonts, start>>

\* line 194: img2.save(output_path, 'PNG')
IconSave ==
    /\ script = "icon" /\ pc = "save"
    /\ LET f == Encode(loc.img2)
       IN /\ files' = [files EXCEPT ![icon_output_path] = f]
          /\ loc' = [loc EXCEPT !.wrote = @ \cup {<<icon_output_path, f>>}]
          /\ End("ok", loc.wrote \cup {<<icon_output_path, f>>})
    /\ UNCHANGED <<dirs, fonts, start>>

----------------------------------------------------------------------------
(* scripts/generate_feature_graphic.py *)

\* lines 9-31: the gradient canvas with the glow layer composited onto it
FgBackground ==
    /\ script = "feature" /\ pc = "background"
    /\ LET img == Draw(New(WIDTH, HEIGHT), "gradient")
           glow == Draw(New(WIDTH, HEIGHT), "glow")
       IN loc' = [loc EXCEPT !.img = alpha_composite(img, glow)]
    /\ Continue("icon")
    /\ UNCHANGED <<dirs, files, fonts, start>>

\* lines 34-53: if os.path.exists(icon_path): open, resize, shadow, paste
FgIcon ==
    /\ script = "feature" /\ pc = "icon"
    /\ \/ /\ exists(icon_path) /\ Decodable(files[icon_path])
          /\ LET icon == resize(convert(Decode(files[icon_path])), icon_size)
                 shadow == Draw(New(WIDTH, HEIGHT), "shadow")
             IN loc' = [loc EXCEPT !.icon = icon,
                                   !.img = paste(alpha_composite(@, shadow), icon)]
          /\ Continue("fonts")
       \/ /\ exists(icon_path) /\ ~Decodable(files[icon_path])
          /\ loc' = [loc EXCEPT !.loads = @ + 1]
          /\ End("error", loc.wrote)
       \/ /\ ~exists(icon_path)
          /\ loc' = loc
          /\ Continue("fonts")
    /\ UNCHANGED <<dirs, files, fonts, start>>

\* lines 62-102: one font per text role, each from its own list
FgFonts ==
    /\ script = "feature" /\ pc = "fonts"
    /\ loc' = [loc EXCEPT
                 !.font_title = OrDefault(FontLoop(font_bold_paths, 62, 1)),
                 !.font_subtitle = OrDefault(FontLoop(font_paths, 30, 1)),
                 !.font_tagline = OrDefault(FontLoop(font_light_paths, 24, 1))]
    /\ Continue("text")
    /\ UNCHANGED <<dirs, files, fonts, start>>

\* lines 105-128: the two title lines, the divider, the tagline, the sub-tagline
FgText ==
    /\ script = "feature" /\ pc = "text"
    /\ LET a == DrawText(loc.img, "Family", loc.font_title)
           b == DrawText(a, "Shopping List", loc.font_title)
           c == Draw(b, "divider")
           d == DrawText(c, "Shop together. Stay organized.", loc.font_subtitle)
           e == DrawText(d, "Real-time sync  |  Budget tracking  |  Family groups",
                         loc.font_tagline)
       IN loc' = [loc EXCEPT !.img = e]
    /\ Continue("save")
    /\ UNCHANGED <<dirs, files, fonts, start>>

\* line 130: img.save(output_path, 'PNG'); open() raises when the directory
\* of output_path does not exist (this script never creates it)
FgSave ==
    /\ script = "feature" /\ pc = "save"
    /\ \/ /\ dirname(feature_output_path) \in dirs
          /\ LET f == Encode(loc.img)
             IN /\ files' = [files EXCEPT ![feature_output_path] = f]
                /\ loc' = [loc EXCEPT !.wrote = @ \cup {<<feature_output_path, f>>}]
                /\ End("ok", loc.wrote \cup {<<feature_output_path, f>>})
       \/ /\ dirname(feature_output_path) \notin dirs
          /\ UNCHANGED <<files, loc>>
          /\ End("error", loc.wrote)
    /\ UNCHANGED <<dirs, fonts, start>>

----------------------------------------------------------------------------
(* scripts/generate_mipmaps.py *)

\* mutant: a failed load falls back to a blank canvas instead of raising
MmOpen_mut ==
    /\ script = "mipmap" /\ pc = "open"
    /\ \/ /\ Decodable(files[src])
          /\ loc' = [loc EXCEPT !.img = convert(Decode(files[src])),
                                !.loads = @ + 1, !.i = 1]
       \/ /\ ~Decodable(files[src])
          /\ loc' = [loc EXCEPT !.img = New(SIZE, SIZE), !.loads = @ + 1, !.i = 1]
    /\ Continue("loop")
    /\ UNCHANGED <<dirs, files, fonts, start>>

\* line 8: img = Image.open(src).convert('RGBA')
MmOpen ==
    /\ script = "mipmap" /\ pc = "open"
    /\ \/ /\ Decodable(files[src])
          /\ loc' = [loc EXCEPT !.img = convert(Decode(files[src])),
                                !.loads = @ + 1, !.i = 1]
          /\ Continue("loop")
       \/ /\ ~Decodable(files[src])
          /\ loc' = [loc EXCEPT !.loads = @ + 1]
          /\ End("error", loc.wrote)
    /\ UNCHANGED <<dirs, files, fonts, start>>

\* mutant: an output that already exists is kept
SaveBoth_mut(fl, out_dir, resized) ==
    [p \in Paths |->
        IF dirname(p) = out_dir /\ fl[p] = NoFile THEN Encode(resized) ELSE fl[p]]

\* lines 26-27: resized.save(.../ic_launcher.png), resized.save(.../ic_launcher_round.png)
SaveBoth(fl, out_dir, resized) ==
    [fl EXCEPT ![join(out_dir, "ic_launcher.png")] = Encode(resized),
               ![join(out_dir, "ic_launcher_round.png")] = Encode(resized)]

\* lines 19-28: one iteration of `for folder, size in sizes.items()`;
\* line 30 follows the last one
MmFolder ==
    /\ script = "mipmap" /\ pc = "loop"
    /\ LET folder == Folders[loc.i]
           size == sizes[folder]
           out_dir == folder
           resized == resize(loc.img, size)
           w == loc.wrote \cup {<<join(out_dir, "ic_launcher.png"), Encode(resized)>>,
                                <<join(out_dir, "ic_launcher_round.png"), Encode(resized)>>}
       IN /\ dirs' = dirs \cup {out_dir}
          /\ files' = SaveBoth(files, out_dir, resized)
          /\ loc' = [loc EXCEPT !.resized = resized, !.wrote = w, !.i = @ + 1]
          /\ \/ loc.i < Len(Folders) /\ Continue("loop")
             \/ loc.i = Len(Folders) /\ End("ok", w)
    /\ UNCHANGED <<fonts, start>>

----------------------------------------------------------------------------
(* The user, between runs *)

\* the optional pre-existing icon: where the user keeps it, and what it may be
UserIconPath == join("assets", "app-icon-512.png")

UserIcons ==
    {[fmt |-> "PNG", w |-> 512, h |-> 512, mode |-> "RGB",
      px |-> <<Layer("photo", NoFont, NoImage)>>],
     [fmt |-> "PNG", w |-> 96, h |-> 96, mode |-> "RGBA",
      px |-> <<Layer("logo", NoFont, NoImage)>>]}

\* a change from outside the scripts starts a new era of the history
Forget ==
    /\ start' = [dirs |-> dirs', files |-> files']
    /\ last' = NoRun
    /\ seen' = [s \in Scripts |-> NotSeen]
    /\ loc' = Blank /\ pc' = "none"
    /\ UNCHANGED <<fonts, script>>

EnvPutIcon ==
    /\ script = "idle"
    /\ \E c \in UserIcons \cup {Junk} :
          /\ files[UserIconPath] # c
          /\ files' = [files EXCEPT ![UserIconPath] = c]
    /\ dirs' = dirs \cup {"assets"}
    /\ Forget

EnvRemoveIcon ==
    /\ script = "idle"
    /\ exists(UserIconPath)
    /\ files' = [files EXCEPT ![UserIconPath] = NoFile]
    /\ dirs' = dirs
    /\ Forget

\* rm -r assets
EnvRemoveAssets ==
    /\ script = "idle"
    /\ "assets" \in dirs
    /\ files' = [p \in Paths |-> IF dirname(p) = "assets" THEN NoFile ELSE files[p]]
    /\ dirs' = dirs \ {"assets"}
    /\ Forget

----------------------------------------------------------------------------
(* The specification *)

InitRun ==
    /\ script = "idle" /\ pc = "none" /\ loc = Blank
    /\ start = Fs
    /\ last = NoRun
    /\ seen = [s \in Scripts |-> NotSeen]

Init ==
    /\ fonts \in SUBSET {FontOrder[k] : k \in 1..MaxFonts}
    /\ dirs = {}
    /\ files = [p \in Paths |-> NoFile]
    /\ InitRun

Next ==
    \/ \E s \in Scripts : Launch(s)
    \/ IconMakedirs \/ IconDraft \/ IconRedraw \/ IconSave
    \/ FgBackground \/ FgIcon \/ FgFonts \/ FgText \/ FgSave
    \/ MmOpen \/ MmFolder
    \/ EnvPutIcon \/ EnvRemoveIcon \/ EnvRemoveAssets

Spec == Init /\ [][Next]_vars

\* The feature-graphic generator alone, on every set of installed fonts
InitFonts ==
    /\ fonts \in SUBSET AllFonts
    /\ dirs = {"assets"}
    /\ \E c \in UserIcons \cup {NoFile} :
          files = [p \in Paths |-> IF p = UserIconPath THEN c ELSE NoFile]
    /\ InitRun

NextFonts ==
    \/ Launch("feature")
    \/ FgBackground \/ FgIcon \/ FgFonts \/ FgText \/ FgSave

SpecFonts == InitFonts /\ [][NextFonts]_vars

----------------------------------------------------------------------------
(* What the specification says of the scripts *)

IconFile == <<"assets", "app-icon-512.png">>
FeatureFile == <<"assets", "feature-graphic.png">>
Densities == {"mipmap-mdpi", "mipmap-hdpi", "mipmap-xhdpi", "mipmap-xxhdpi", "mipmap-xxxhdpi"}
MipmapFiles == {<<d, n>> : d \in Densities, n \in {"ic_launcher.png", "ic_launcher_round.png"}}

DensitySize(d) ==
    CASE d = "mipmap-mdpi" -> 48
      [] d = "mipmap-hdpi" -> 72
      [] d = "mipmap-xhdpi" -> 96
      [] d = "mipmap-xxhdpi" -> 144
      [] d = "mipmap-xxxhdpi" -> 192

\* the designated <<width, height>> of an output path
Designated(p) ==
    IF p = IconFile THEN <<512, 512>>
    ELSE IF p = FeatureFile THEN <<1024, 500>>
    ELSE <<DensitySize(p[1]), DensitySize(p[1])>>

Outputs(s) ==
    CASE s = "icon" -> {IconFile}
      [] s = "feature" -> {FeatureFile}
      [] s = "mipmap" -> MipmapFiles

\* the directories a script may create
MayCreate(s) ==
    CASE s = "icon" -> {"assets"}
      [] s = "feature" -> {}
      [] s = "mipmap" -> Densities

\* the current or last run is a run of s
RunOf(s) == script = s \/ (script = "idle" /\ last.script = s)
\* the last run was a run of s that ended with outcome o, and nothing ran since
Finished(s, o) == script = "idle" /\ last = [script |-> s, outcome |-> o]

\* the icon file as the scripts load it
Source == convert(Decode(files[IconFile]))
\* file f holds image im resampled (or im itself, when im has f's size)
FromImage(f, im) ==
    \/ f.px = <<Layer("LANCZOS", NoFont, im)>>
    \/ f.w = im.w /\ f.h = im.h /\ f.px = im.px
HasPaste(im) == \E k \in 1..Len(im.px) : im.px[k].op = "paste"
HasShadow(im) ==
    \E k \in 1..Len(im.px) :
        im.px[k].op = "alpha_composite" /\ im.px[k].src = Draw(New(1024, 500), "shadow")

\* C1: when the icon file is absent as the mipmap generator starts, the run
\* ends in an error before any effect: the filesystem stays as it was (no
\* directory created, no file written) and the load is attempted once.
C1_MissingIconFailsFast ==
    (RunOf("mipmap") /\ start.files[IconFile] = NoFile) =>
        /\ Fs = start
        /\ loc.loads <= 1
        /\ script = "mipmap" => pc = "open" /\ loc.loads = 0
        /\ script = "idle" => last.outcome = "error" /\ loc.loads = 1

C1_Witness ==
    /\ Finished("mipmap", "error")
    /\ start.files[IconFile] = NoFile
    /\ loc.loads = 1
    /\ \E p \in MipmapFiles : start.files[p] # NoFile

\* C2: after a successful run of the mipmap generator, for each of the five
\* densities ic_launcher.png and ic_launcher_round.png both exist, are
\* identical, and hold the source icon resized to the density's size.
C2_MipmapPairs ==
    Finished("mipmap", "ok") =>
        \A d \in Densities :
            LET a == files[<<d, "ic_launcher.png">>]
                b == files[<<d, "ic_launcher_round.png">>]
            IN /\ a.fmt = "PNG" /\ b.fmt = "PNG"
               /\ a = b
               /\ a.w = DensitySize(d) /\ a.h = DensitySize(d)
               /\ FromImage(a, Source)

C2_Witness ==
    /\ Finished("mipmap", "ok")
    /\ files[IconFile] \in UserIcons
    /\ files[IconFile].w = 96
    /\ files[<<"mipmap-xhdpi", "ic_launcher.png">>].px = files[IconFile].px
    /\ files[<<"mipmap-mdpi", "ic_launcher_round.png">>].w = 48

\* C3: every file a script has written has the designated dimensions of its
\* path (512x512, 1024x500, 48/72/96/144/192 square), and the canvas being
\* drawn keeps its dimensions across the reassignments made by compositing.
C3_FixedDimensions ==
    /\ \A s \in Scripts : \A e \in seen[s].wrote \cup loc.wrote :
          <<e[2].w, e[2].h>> = Designated(e[1])
    /\ \A p \in Paths :
          (\E s \in Scripts : <<p, files[p]>> \in seen[s].wrote \cup loc.wrote)
              => <<files[p].w, files[p].h>> = Designated(p)
    /\ (script = "feature" /\ pc # "background") => <<loc.img.w, loc.img.h>> = <<1024, 500>>
    /\ (script = "icon" /\ pc = "redraw") => <<loc.img.w, loc.img.h>> = <<512, 512>>
    /\ (script = "icon" /\ pc = "save") => <<loc.img2.w, loc.img2.h>> = <<512, 512>>

C3_Witness ==
    /\ \A s \in Scripts : seen[s].outcome = "ok"
    /\ \A p \in Paths : files[p].fmt = "PNG"
    /\ Finished("feature", "ok")
    /\ HasPaste(loc.img)
    /\ fonts # {}

\* C4: when the icon file is absent, the feature-graphic generator raises no
\* error, skips the shadow and the paste, and completes by writing
\* assets/feature-graphic.png, in every filesystem state without the icon.
C4_MissingIconIsSkipped ==
    (script = "idle" /\ last.script = "feature" /\ start.files[IconFile] = NoFile) =>
        /\ last.outcome = "ok"
        /\ ~HasPaste(loc.img) /\ ~HasShadow(loc.img)
        /\ files[FeatureFile] = Encode(loc.img)

\* C5, as stated: a run of a script has the same outcome and writes the same
\* content as its previous run, whichever other scripts ran in between.
C5_Independent ==
    \A s \in Scripts :
        seen[s].was_outcome # "none" =>
            /\ seen[s].outcome = seen[s].was_outcome
            /\ seen[s].wrote = seen[s].was_wrote

\* C5, amended: the icon generator is independent of the other two, and the
\* feature-graphic and mipmap generators are independent of each other; the
\* latter two depend on the icon generator having run.
C5_IndependentButForIcon ==
    \A s \in Scripts :
        (seen[s].was_outcome # "none" /\ (s = "icon" \/ "icon" \notin seen[s].between)) =>
            /\ seen[s].outcome = seen[s].was_outcome
            /\ seen[s].wrote = seen[s].was_wrote

C5_Witness ==
    /\ seen["icon"].between = {"feature", "mipmap"}
    /\ seen["mipmap"].between = {"feature"}
    /\ seen["mipmap"].outcome = "ok"
    /\ seen["feature"].between = {"mipmap"}
    /\ script = "idle"

\* C6: a script run twice in a row leaves the filesystem as its first run
\* left it, and the second run has the first run's outcome.
C6_Idempotent ==
    \A s \in Scripts :
        (script = "idle" /\ last.script = s
            /\ seen[s].was_outcome # "none" /\ seen[s].between = {}) =>
            /\ Fs = start
            /\ seen[s].outcome = seen[s].was_outcome

C6_Witness ==
    /\ Finished("feature", "ok")
    /\ seen["feature"].was_outcome = "ok"
    /\ seen["feature"].between = {}
    /\ HasPaste(loc.img)
    /\ seen["mipmap"].outcome = "ok"

\* C7: after a successful run every output file of the script holds what the
\* run rendered, whatever was at that path before; the ten mipmap files all
\* derive from the current source icon.
C7_Overwritten ==
    /\ Finished("icon", "ok") => files[IconFile] = Encode(loc.img2)
    /\ Finished("feature", "ok") => files[FeatureFile] = Encode(loc.img)
    /\ Finished("mipmap", "ok") =>
          \A p \in MipmapFiles : files[p].fmt = "PNG" /\ FromImage(files[p], Source)

C7_Witness ==
    /\ Finished("mipmap", "ok")
    /\ \A p \in MipmapFiles : start.files[p] \notin {NoFile, files[p]}
    /\ files[IconFile] = start.files[IconFile]

\* the first path of a list that exists, as the specification words it
FirstExisting(paths) ==
    paths[CHOOSE k \in 1..Len(paths) :
            paths[k] \in fonts /\ \A j \in 1..(k - 1) : paths[j] \notin fonts]
RoleFont(font, paths) ==
    IF \E k \in 1..Len(paths) : paths[k] \in fonts
    THEN font.path = FirstExisting(paths)
    ELSE font.path = "default"

\* C8: each text role uses the first existing path of its own list, and the
\* built-in default exactly when no path of its list exists.
C8_FirstAvailableFont ==
    (script = "feature" /\ pc \in {"text", "save"}) =>
        /\ RoleFont(loc.font_title, <<"segoeuib.ttf", "arialbd.ttf", "calibrib.ttf">>)
        /\ RoleFont(loc.font_subtitle, <<"segoeui.ttf", "arial.ttf", "calibri.ttf">>)
        /\ RoleFont(loc.font_tagline, <<"segoeuil.ttf", "calibril.ttf", "arial.ttf">>)

C8_Witness ==
    /\ script = "feature" /\ pc = "save"
    /\ fonts = {"arialbd.ttf", "calibrib.ttf", "calibril.ttf"}
    /\ loc.font_title.path = "arialbd.ttf"
    /\ loc.font_subtitle.path = "default"
    /\ loc.font_tagline.path = "calibril.ttf"

\* C9: a script changes no file but its own outputs and creates no directory
\* but its own; the feature-graphic and mipmap generators leave the icon file
\* as it was, on success and on error.
C9_WritesOnlyOwnOutputs ==
    \A s \in Scripts :
        RunOf(s) =>
            /\ \A p \in Paths \ Outputs(s) : files[p] = start.files[p]
            /\ start.dirs \subseteq dirs
            /\ dirs \ start.dirs \subseteq MayCreate(s)
            /\ s # "icon" => files[IconFile] = start.files[IconFile]

C9_Witness ==
    /\ Finished("feature", "ok")
    /\ files[IconFile] # NoFile
    /\ files[FeatureFile] # start.files[FeatureFile]
    /\ \A p \in MipmapFiles : files[p] # NoFile

\* C10: once the icon generator has completed and nothing outside the scripts
\* has touched the files since, every run of the mipmap generator loads its
\* source and writes all ten files, and every run of the feature-graphic
\* generator pastes the icon and writes its output.
C10_AfterIconGenerator ==
    seen["icon"].outcome = "ok" =>
        /\ (script = "idle" /\ last.script = "mipmap") =>
              /\ last.outcome = "ok"
              /\ \A p \in MipmapFiles : <<p, files[p]>> \in loc.wrote
        /\ (script = "idle" /\ last.script = "feature") =>
              /\ last.outcome = "ok"
              /\ HasPaste(loc.img)
              /\ <<FeatureFile, files[FeatureFile]>> \in loc.wrote
        /\ (script = "mipmap" /\ pc = "loop") => loc.img = Source
        /\ (script = "feature" /\ pc \in {"fonts", "text", "save"}) => HasPaste(loc.img)

C10_Witness ==
    /\ seen["icon"].outcome = "ok"
    /\ seen["icon"].since = {"feature", "mipmap"}
    /\ Finished("feature", "ok")
    /\ seen["mipmap"].outcome = "ok"

====
